---- MODULE Spec2Model ----
\* Catalog reflection of the MonetDB dialect (sqlalchemy_monetdb/dialect.py):
\* name resolution against sys.schemas / sys.tables, the table-existence
\* probe, and the reshaping of catalog rows into reflection dictionaries.
EXTENDS Integers, Sequences, FiniteSets, TLC

\* ---------------------------------------------------------------- bounds
MaxSchemaId == 2
MaxTables == 2
\* rows of a key, index or foreign-key result set
MaxRows == 3
\* rows of a column result set
MaxCols == 2

\* ---------------------------------------------------------------- values
\* Python's None for a name, and SQL NULL / Python None for a numeric id.
None == "None"
NoneId == 0

SchemaNames == {"sales", "sys"}
TableNames == {"items", "orders"}
SchemaIds == 1..MaxSchemaId
\* sys.tables.type discriminant: 0 = base table, 1 = view
TableTypes == {0, 1}

VARIABLES
    sys_schemas,     \* sys.schemas: schema name -> id (NoneId when absent)
    sys_tables,      \* sys.tables: set of rows [id, name, schema_id, type, system]
    current_schema,  \* value of SELECT current_schema on the connection
    info_cache,      \* the reflection session's info_cache dictionary
    cursor,          \* rows the connection returns for a handler's row query
    resolved,        \* history: first id _schema_id returned per argument in this session
    last             \* the last dialect call: arguments, outcome and queries issued

vars == <<sys_schemas, sys_tables, current_schema, info_cache, cursor, resolved, last>>

\* ------------------------------------------------- catalog (live database)
SchemaArgs == SchemaNames \cup {None}

\* sys.tables.id: the database gives every table an id of its own
TableIdOf(name, schema_id) ==
    2 * schema_id + (IF name = "orders" THEN 1 ELSE 0)

\* SELECT id FROM sys.schemas WHERE name = :schema_name  -> cursor.scalar()
SelectSchemaId(schema_name) ==
    IF schema_name \in DOMAIN sys_schemas THEN sys_schemas[schema_name] ELSE NoneId

\* SELECT id FROM sys.tables WHERE name = :name AND schema_id = :schema_id
SelectTableId(name, schema_id) ==
    LET rows == {t \in sys_tables : t.name = name /\ t.schema_id = schema_id}
    IN IF rows = {} THEN NoneId ELSE (CHOOSE t \in rows : TRUE).id

\* ------------------------------------------------------- reflection.cache
\* kw of a call: the set of keyword names the caller passed.
NoKw == {}
SessionKw == {"info_cache"}

\* Outcome of a call: exc = None on normal return; nq = catalog queries issued.
\* msg = the pieces the exception message is formatted from.
Ok(ret, nq) == [exc |-> None, msg |-> <<>>, ret |-> ret, nq |-> nq, put |-> {}]
Raise(e, msg, nq) == [exc |-> e, msg |-> msg, ret |-> NoneId, nq |-> nq, put |-> {}]

\* @reflection.cache: without an info_cache keyword the function runs
\* directly; with one, a stored value is returned without running it, and a
\* computed value is stored (an exception propagates and stores nothing).
cache(key, kw, body) ==
    IF "info_cache" \notin kw THEN body
    ELSE IF key \in DOMAIN info_cache
         THEN Ok(info_cache[key], 0)
         ELSE IF body.exc = None
              THEN [body EXCEPT !.put = {<<key, body.ret>>}]
              ELSE body

\* info_cache after a call that asked to store the pairs in put
Stored(put) ==
    [k \in DOMAIN info_cache \cup {p[1] : p \in put} |->
        IF \E p \in put : p[1] = k
        THEN (CHOOSE p \in put : p[1] = k)[2]
        ELSE info_cache[k]]

\* ---------------------------------------------------------- name resolver
\* _schema_id without the test for a missing row
schema_id_body_unchecked(schema_name) ==
    LET nm == IF schema_name = None THEN current_schema ELSE schema_name
        q0 == IF schema_name = None THEN 1 ELSE 0
    IN Ok(SelectSchemaId(nm), q0 + 1)

\* MonetDialect._schema_id, undecorated body
schema_id_body(schema_name) ==
    LET nm == IF schema_name = None THEN current_schema ELSE schema_name
        q0 == IF schema_name = None THEN 1 ELSE 0
        schema_id == SelectSchemaId(nm)
    IN IF schema_id = NoneId
       THEN Raise("InvalidRequestError", <<nm>>, q0 + 1)
       ELSE Ok(schema_id, q0 + 1)

_schema_id(schema_name, kw) ==
    cache(<<"_schema_id", schema_name>>, kw, schema_id_body(schema_name))

\* MonetDialect._table_id, undecorated body; it calls _schema_id(con, schema_name)
\* positionally, so the inner call carries no info_cache keyword.
table_id_body(table_name, schema_name) ==
    LET s == _schema_id(schema_name, NoKw)
        table_id == SelectTableId(table_name, s.ret)
    IN IF s.exc # None THEN s
       ELSE IF table_id = NoneId
            THEN Raise("NoSuchTableError", <<table_name>>, s.nq + 1)
            ELSE Ok(table_id, s.nq + 1)

_table_id(table_name, schema_name, kw) ==
    cache(<<"_table_id", table_name, schema_name>>, kw,
          table_id_body(table_name, schema_name))

\* ------------------------------------------------------ catalog reflector
\* MonetDialect.get_table_names: _schema_id is called without the kw the
\* handler received.  The names come back in the database's order; the model
\* keeps the set.
get_table_names(schema, kw) ==
    LET s == _schema_id(schema, NoKw)
    IN IF s.exc # None THEN s
       ELSE Ok({t.name : t \in {u \in sys_tables :
                    u.system = FALSE /\ u.type = 0 /\ u.schema_id = s.ret}},
               s.nq + 1)

\* has_table that runs the name-only query whatever the schema argument
has_table_any_schema(table_name, schema) ==
    Ok(\E t \in sys_tables :
          t.system = FALSE /\ t.type = 0 /\ t.name = table_name, 1)

\* MonetDialect.has_table: bool(cursor.first()) of one of two queries
has_table(table_name, schema) ==
    IF schema = None
    THEN Ok(\E t \in sys_tables :
                t.system = FALSE /\ t.type = 0 /\ t.name = table_name, 1)
    ELSE Ok(\E t \in sys_tables : \E n \in SchemaNames :
                /\ t.system = FALSE
                /\ t.schema_id = sys_schemas[n]
                /\ t.type = 0
                /\ t.name = table_name
                /\ n = schema, 1)

\* MonetDialect.get_schema_names: SELECT name FROM sys.schemas ORDER BY name,
\* cached in the session's info_cache.  The ordered list of the two names is
\* determined by the set of names present.
get_schema_names(kw) ==
    cache(<<"get_schema_names">>, kw,
          Ok({n \in SchemaNames : sys_schemas[n] # NoneId}, 1))

\* ------------------------------------------------------------- the machine
NoCursor == [q |-> "none", rows |-> <<>>]

NoCall == [op |-> "none", table_name |-> None, schema |-> None,
           exc |-> None, msg |-> <<>>, ret |-> NoneId, nq |-> 0,
           sid |-> NoneId, sid_nq |-> 0, prior |-> NoneId]

\* the outcome r of a handler call, with the outcome s of its _schema_id call
Called(op, table_name, schema, r, s) ==
    [op |-> op, table_name |-> table_name, schema |-> schema,
     exc |-> r.exc, msg |-> r.msg, ret |-> r.ret, nq |-> r.nq,
     sid |-> s.ret, sid_nq |-> s.nq, prior |-> resolved[schema]]

\* history of the first successful _schema_id per argument in this session
Resolve(schema, s) ==
    IF s.exc = None /\ resolved[schema] = NoneId
    THEN [resolved EXCEPT ![schema] = s.ret]
    ELSE resolved

\* a connection whose current schema is sys and that holds one base table
Init ==
    /\ sys_schemas = [n \in SchemaNames |-> IF n = "sys" THEN 1 ELSE NoneId]
    /\ sys_tables = {[id |-> TableIdOf("orders", 1), name |-> "orders",
                      schema_id |-> 1, type |-> 0, system |-> FALSE]}
    /\ current_schema = "sys"
    /\ info_cache = <<>>
    /\ cursor = NoCursor
    /\ resolved = [a \in SchemaArgs |-> NoneId]
    /\ last = NoCall

\* ---- the live database changes the catalog
CreateSchema(n, i) ==
    /\ sys_schemas[n] = NoneId
    /\ \A m \in SchemaNames : sys_schemas[m] # i
    /\ sys_schemas' = [sys_schemas EXCEPT ![n] = i]
    /\ UNCHANGED <<sys_tables, current_schema, info_cache, cursor, resolved, last>>

DropSchema(n) ==
    /\ sys_schemas[n] # NoneId
    /\ n # current_schema
    /\ sys_schemas' = [sys_schemas EXCEPT ![n] = NoneId]
    /\ sys_tables' = {t \in sys_tables : t.schema_id # sys_schemas[n]}
    /\ UNCHANGED <<current_schema, info_cache, cursor, resolved, last>>

SetSchema(n) ==
    /\ sys_schemas[n] # NoneId
    /\ n # current_schema
    /\ current_schema' = n
    /\ UNCHANGED <<sys_schemas, sys_tables, info_cache, cursor, resolved, last>>

\* ---- a new reflection session (Inspector) starts with an empty info_cache
NewSession ==
    /\ info_cache' = <<>>
    /\ resolved' = [a \in SchemaArgs |-> NoneId]
    /\ last' = NoCall
    /\ UNCHANGED <<sys_schemas, sys_tables, current_schema, cursor>>

\* ---- the host calls the dialect, passing the session's info_cache in kw
SchemaId(schema) ==
    LET s == _schema_id(schema, NoKw)
    IN /\ last' = Called("_schema_id", None, schema, s, s)
       /\ resolved' = Resolve(schema, s)
       /\ info_cache' = Stored(s.put)
       /\ UNCHANGED <<sys_schemas, sys_tables, current_schema, cursor>>

TableId(table_name, schema) ==
    LET r == _table_id(table_name, schema, NoKw)
        s == _schema_id(schema, NoKw)
    IN /\ last' = Called("_table_id", table_name, schema, r, s)
       /\ resolved' = Resolve(schema, s)
       /\ info_cache' = Stored(r.put)
       /\ UNCHANGED <<sys_schemas, sys_tables, current_schema, cursor>>

GetTableNames(schema) ==
    LET r == get_table_names(schema, SessionKw)
        s == _schema_id(schema, NoKw)
    IN /\ last' = Called("get_table_names", None, schema, r, s)
       /\ resolved' = Resolve(schema, s)
       /\ info_cache' = Stored(r.put)
       /\ UNCHANGED <<sys_schemas, sys_tables, current_schema, cursor>>

HasTable(table_name, schema) ==
    LET r == has_table(table_name, schema)
    IN /\ last' = [NoCall EXCEPT !.op = "has_table", !.schema = schema,
                       !.table_name = table_name,
                       !.exc = r.exc, !.ret = r.ret, !.nq = r.nq]
       /\ UNCHANGED <<sys_schemas, sys_tables, current_schema, info_cache,
                      cursor, resolved>>

GetSchemaNames ==
    LET r == get_schema_names(SessionKw)
    IN /\ last' = [NoCall EXCEPT !.op = "get_schema_names",
                       !.exc = r.exc, !.ret = r.ret, !.nq = r.nq]
       /\ info_cache' = Stored(r.put)
       /\ UNCHANGED <<sys_schemas, sys_tables, current_schema, cursor, resolved>>

\* One reflection session after another over a catalog whose schemas change.
Next ==
    \/ \E n \in SchemaNames, i \in SchemaIds : CreateSchema(n, i)
    \/ \E n \in SchemaNames : DropSchema(n)
    \/ \E n \in SchemaNames : SetSchema(n)
    \/ NewSession
    \/ \E schema \in SchemaArgs : SchemaId(schema)
    \/ \E table_name \in TableNames, schema \in SchemaArgs : TableId(table_name, schema)
    \/ \E schema \in SchemaArgs : GetTableNames(schema)
    \/ GetSchemaNames

Spec == Init /\ [][Next]_vars

\* ---------------------------------------------- lookups over any catalog
\* every catalog of at most MaxTables tables: schema names and ids are unique,
\* the current schema exists, a table's (schema_id, name) and id are unique
\* and its schema exists.
TableRows ==
    {[id |-> TableIdOf(k.name, k.schema_id), name |-> k.name,
      schema_id |-> k.schema_id, type |-> k.type, system |-> k.system] :
        k \in [name : TableNames, schema_id : SchemaIds,
               type : TableTypes, system : BOOLEAN]}

TableSets ==
    UNION {{{f[i] : i \in 1..k} : f \in [1..k -> TableRows]} : k \in 0..MaxTables}

InitCatalog ==
    /\ sys_schemas \in [SchemaNames -> SchemaIds \cup {NoneId}]
    /\ \A m, n \in SchemaNames :
         (m # n /\ sys_schemas[m] # NoneId) => sys_schemas[m] # sys_schemas[n]
    /\ current_schema \in SchemaNames
    /\ sys_schemas[current_schema] # NoneId
    /\ sys_tables \in TableSets
    /\ \A t, u \in sys_tables :
         /\ \E n \in SchemaNames : sys_schemas[n] = t.schema_id
         /\ (t # u) => t.id # u.id
         /\ (t # u) => ~(t.name = u.name /\ t.schema_id = u.schema_id)
    /\ info_cache = <<>>
    /\ cursor = NoCursor
    /\ resolved = [a \in SchemaArgs |-> NoneId]
    /\ last = NoCall

\* one lookup per catalog: a lookup depends on the catalog and its arguments only
NextCatalog ==
    \/ \E schema \in SchemaArgs : last.op = "none" /\ SchemaId(schema)
    \/ \E table_name \in TableNames, schema \in SchemaArgs :
          last.op = "none" /\ TableId(table_name, schema)
    \/ \E schema \in SchemaArgs : last.op = "none" /\ GetTableNames(schema)
    \/ \E table_name \in TableNames, schema \in SchemaArgs :
          last.op = "none" /\ HasTable(table_name, schema)

SpecCatalog == InitCatalog /\ [][NextCatalog]_vars

\* ------------------------------------------------------------ row shapes
RECURSIVE Range(_)
Range(seq) == IF seq = <<>> THEN {} ELSE {Head(seq)} \cup Range(Tail(seq))

\* key / index / foreign-key names, listed in ORDER BY name order
KeyNames == <<"k_a", "k_b", "k_c">>
Rank(n) == CHOOSE i \in 1..Len(KeyNames) : KeyNames[i] = n
ColNames == {"c1", "c2"}
RefNames == {"r1", "r2"}

\* objects.nr of row i: its position among the rows of the same key
Nr(names, i) == Cardinality({j \in 1..(i - 1) : names[j] = names[i]})

\* ORDER BY name, nr: names ascend, so equal names are contiguous
Ordered(names) ==
    \A i \in 1..(Len(names) - 1) : Rank(names[i]) <= Rank(names[i + 1])

\* the referenced table of a foreign key
PkTable(name) ==
    IF name = "k_a" THEN [schema |-> "sys", table |-> "parent"]
    ELSE [schema |-> "sales", table |-> "region"]

\* result sets of the get_foreign_keys query
FkCursors ==
    UNION {{[i \in 1..k |->
                [name |-> f[i][1],
                 pktable_schema |-> PkTable(f[i][1]).schema,
                 pktable_name |-> PkTable(f[i][1]).table,
                 fkcolumn_name |-> f[i][2],
                 pkcolumn_name |-> f[i][3],
                 key_seq |-> Nr([j \in 1..k |-> f[j][1]], i)]] :
              f \in {g \in [1..k -> Range(KeyNames) \X ColNames \X RefNames] :
                        Ordered([j \in 1..k |-> g[j][1]])}} :
           k \in 0..MaxRows}

\* result sets of the get_indexes query
IdxCursors ==
    UNION {{[i \in 1..k |->
                [name |-> f[i][1], column_name |-> f[i][2],
                 nr |-> Nr([j \in 1..k |-> f[j][1]], i)]] :
              f \in {g \in [1..k -> Range(KeyNames) \X ColNames] :
                        Ordered([j \in 1..k |-> g[j][1]])}} :
           k \in 0..MaxRows}

\* result sets of the key queries (no ORDER BY): rows (col, name) in any order
KeyCursors ==
    UNION {[1..k -> [col : ColNames, name : Range(KeyNames)]] : k \in 0..MaxRows}

\* ------------------------------------------------------- get_foreign_keys
\* the loop step that starts a new key without emptying referred_columns
fk_step_noreset(st, row) ==
    LET flush == st.last_name # None /\ st.last_name # row.name
        open == st.last_name = None \/ st.last_name # row.name
        results == IF flush
                   THEN Append(st.results,
                               ("constrained_columns" :> st.constrained_columns)
                               @@ ("referred_columns" :> st.referred_columns)
                               @@ st.key_data)
                   ELSE st.results
        constrained_columns == IF flush THEN <<>> ELSE st.constrained_columns
        key_data == IF open
                    THEN [name |-> row.name,
                          referred_schema |-> row.pktable_schema,
                          referred_table |-> row.pktable_name]
                    ELSE st.key_data
    IN [results |-> results,
        key_data |-> key_data,
        constrained_columns |-> Append(constrained_columns, row.fkcolumn_name),
        referred_columns |-> Append(st.referred_columns, row.pkcolumn_name),
        last_name |-> row.name]

\* one iteration of the loop over the cursor
fk_step(st, row) ==
    LET flush == st.last_name # None /\ st.last_name # row.name
        open == st.last_name = None \/ st.last_name # row.name
        results == IF flush
                   THEN Append(st.results,
                               ("constrained_columns" :> st.constrained_columns)
                               @@ ("referred_columns" :> st.referred_columns)
                               @@ st.key_data)
                   ELSE st.results
        constrained_columns == IF flush THEN <<>> ELSE st.constrained_columns
        referred_columns == IF flush THEN <<>> ELSE st.referred_columns
        key_data == IF open
                    THEN [name |-> row.name,
                          referred_schema |-> row.pktable_schema,
                          referred_table |-> row.pktable_name]
                    ELSE st.key_data
    IN [results |-> results,
        key_data |-> key_data,
        constrained_columns |-> Append(constrained_columns, row.fkcolumn_name),
        referred_columns |-> Append(referred_columns, row.pkcolumn_name),
        last_name |-> row.name]

RECURSIVE fk_loop(_, _)
fk_loop(st, rows) ==
    IF rows = <<>> THEN st ELSE fk_loop(fk_step(st, Head(rows)), Tail(rows))

\* the fold of get_foreign_keys over the rows of its query
fk_fold(rows) ==
    LET st == fk_loop([results |-> <<>>, key_data |-> <<>>,
                       constrained_columns |-> <<>>, referred_columns |-> <<>>,
                       last_name |-> None], rows)
    IN IF DOMAIN st.key_data # {}
       THEN Append(st.results,
                   ("constrained_columns" :> st.constrained_columns)
                   @@ ("referred_columns" :> st.referred_columns)
                   @@ st.key_data)
       ELSE st.results

get_foreign_keys(table_name, schema, rows) ==
    LET t == _table_id(table_name, schema, NoKw)
    IN IF t.exc # None THEN t ELSE Ok(fk_fold(rows), t.nq + 1)

\* ------------------------------------------------------------ get_indexes
idx_step(st, row) ==
    LET flush == st.last_name # None /\ st.last_name # row.name
        open == st.last_name = None \/ st.last_name # row.name
        results == IF flush
                   THEN Append(st.results,
                               ("column_names" :> st.column_names) @@ st.index_data)
                   ELSE st.results
        column_names == IF flush THEN <<>> ELSE st.column_names
        index_data == IF open
                      THEN [name |-> row.name, unique |-> FALSE]
                      ELSE st.index_data
    IN [results |-> results,
        index_data |-> index_data,
        column_names |-> Append(column_names, row.column_name),
        last_name |-> row.name]

RECURSIVE idx_loop(_, _)
idx_loop(st, rows) ==
    IF rows = <<>> THEN st ELSE idx_loop(idx_step(st, Head(rows)), Tail(rows))

\* the fold that returns without appending the index still open
idx_fold_noflush(rows) ==
    idx_loop([results |-> <<>>, index_data |-> <<>>,
              column_names |-> <<>>, last_name |-> None], rows).results

idx_fold(rows) ==
    LET st == idx_loop([results |-> <<>>, index_data |-> <<>>,
                        column_names |-> <<>>, last_name |-> None], rows)
    IN IF DOMAIN st.index_data # {}
       THEN Append(st.results,
                   ("column_names" :> st.column_names) @@ st.index_data)
       ELSE st.results

get_indexes(table_name, schema, rows) ==
    LET t == _table_id(table_name, schema, NoKw)
    IN IF t.exc # None THEN t ELSE Ok(idx_fold(rows), t.nq + 1)

\* ------------------------------------------------------ get_pk_constraint
\* the shape that reads the key-name field of a row as its column
pk_shape_names(table) ==
    IF table # <<>>
    THEN [constrained_columns |-> [i \in 1..Len(table) |-> table[i].name],
          name |-> table[1].name]
    ELSE <<>>

pk_shape(table) ==
    IF table # <<>>
    THEN [constrained_columns |-> [i \in 1..Len(table) |-> table[i].col],
          name |-> table[1].name]
    ELSE <<>>

get_pk_constraint(table_name, schema, rows) ==
    LET t == _table_id(table_name, schema, NoKw)
    IN IF t.exc # None THEN t ELSE Ok(pk_shape(rows), t.nq + 1)

\* ------------------------------------------------- get_unique_constraints
\* grouping that opens a new entry whenever the name differs from the
\* previous row's, as the folds of get_foreign_keys and get_indexes do
RECURSIVE col_dict_contiguous(_)
col_dict_contiguous(table) ==
    IF table = <<>> THEN <<>>
    ELSE LET d == col_dict_contiguous(SubSeq(table, 1, Len(table) - 1))
             row == table[Len(table)]
         IN IF d # <<>> /\ d[Len(d)][1] = row.name
            THEN [i \in 1..Len(d) |->
                    IF i = Len(d)
                    THEN <<d[i][1], Append(d[i][2], row.col)>>
                    ELSE d[i]]
            ELSE Append(d, <<row.name, <<row.col>>>>)

\* col_dict = defaultdict(list): a dictionary in insertion order, kept as the
\* sequence of its (name, columns) items
RECURSIVE col_dict(_)
col_dict(table) ==
    IF table = <<>> THEN <<>>
    ELSE LET d == col_dict(SubSeq(table, 1, Len(table) - 1))
             row == table[Len(table)]
         IN IF \E i \in 1..Len(d) : d[i][1] = row.name
            THEN [i \in 1..Len(d) |->
                    IF d[i][1] = row.name
                    THEN <<d[i][1], Append(d[i][2], row.col)>>
                    ELSE d[i]]
            ELSE Append(d, <<row.name, <<row.col>>>>)

uq_shape(table) ==
    LET d == col_dict(table)
    IN [i \in 1..Len(d) |-> [name |-> d[i][1], column_names |-> d[i][2]]]

get_unique_constraints(table_name, schema, rows) ==
    LET t == _table_id(table_name, schema, NoKw)
    IN IF t.exc # None THEN t ELSE Ok(uq_shape(rows), t.nq + 1)

\* ------------------------------------------------------------ get_columns
\* MONETDB_TYPE_MAP: catalog type name -> generic type constructor
MONETDB_TYPE_MAP ==
    [int |-> "INTEGER", varchar |-> "VARCHAR", decimal |-> "DECIMAL",
     timestamptz |-> "TIMESTAMP"]

\* a catalog type name the map has no entry for
UnknownTypes == {"unknown_t"}
TypeNames == DOMAIN MONETDB_TYPE_MAP \cup UnknownTypes

\* texts are sequences of characters
Q == "\""
NextValueFor ==
    <<"n", "e", "x", "t", " ", "v", "a", "l", "u", "e", " ", "f", "o", "r", " ">>
\* \w over the characters that occur in the default texts
WordChars == {"s", "q", "x", "_", "1", "0"}
\* a NULL default (Python None)
NoneText == <<None>>

\* the default MonetDB stores for a column fed by sequence "sch"."sq"
SeqDefault(sch, sq) == NextValueFor \o <<Q>> \o sch \o <<Q, ".", Q>> \o sq \o <<Q>>

DefaultTexts ==
    {pre \o SeqDefault(<<"s">>, sq) \o suf :
        pre \in {<<>>, <<"x", " ">>},
        sq \in {<<"q", "_", "1">>, <<"q", "-", "1">>},
        suf \in {<<>>, <<" ", "x">>, <<"\n">>}}
    \cup {<<"0">>,
          SeqDefault(<<>>, <<>>),
          SeqDefault(<<"s">>, <<"q", "_", "1">>) \o <<"\n", "\n">>,
          NextValueFor \o <<"s", ".", "q">>,
          NextValueFor \o <<Q, "s", Q, ".", Q, "q">>,
          NoneText}

\* end of the longest run of \w characters that starts at position p
RECURSIVE WordEnd(_, _)
WordEnd(text, p) ==
    IF p <= Len(text) /\ text[p] \in WordChars THEN WordEnd(text, p + 1) ELSE p

At(text, p, ch) == p <= Len(text) /\ text[p] = ch

\* the pattern without its closing "$"
match_at_unanchored(text, i) ==
    LET n == Len(NextValueFor)
        p1 == i + n
        p2 == WordEnd(text, p1 + 1)
        p3 == WordEnd(text, p2 + 3)
    IN /\ i + n - 1 <= Len(text)
       /\ SubSeq(text, i, i + n - 1) = NextValueFor
       /\ At(text, p1, Q)
       /\ At(text, p2, Q)
       /\ At(text, p2 + 1, ".")
       /\ At(text, p2 + 2, Q)
       /\ At(text, p3, Q)

\* the pattern  next value for \"(\w*)\"\.\"(\w*)"$  matched from position i;
\* "$" matches at the end of the text or before a newline that ends it
match_at(text, i) ==
    LET n == Len(NextValueFor)
        p1 == i + n
        p2 == WordEnd(text, p1 + 1)
        p3 == WordEnd(text, p2 + 3)
    IN /\ i + n - 1 <= Len(text)
       /\ SubSeq(text, i, i + n - 1) = NextValueFor
       /\ At(text, p1, Q)
       /\ At(text, p2, Q)
       /\ At(text, p2 + 1, ".")
       /\ At(text, p2 + 2, Q)
       /\ At(text, p3, Q)
       /\ \/ p3 = Len(text)
          \/ p3 + 1 = Len(text) /\ text[p3 + 1] = "\n"

\* re.search(r, row.default) is not None
re_search(text) == \E i \in 1..Len(text) : match_at(text, i)

\* rows of sys.columns for one table; column names are unique in a table
ColumnNames == <<"c1", "c2", "c3", "c4">>
ColumnRowValues ==
    [type : TypeNames, default : {NoneText}]
    \cup [type : {"int"}, default : DefaultTexts]

ColumnCursors ==
    UNION {{[i \in 1..k |->
                [name |-> ColumnNames[i], type |-> f[i].type,
                 default |-> f[i].default, null |-> TRUE,
                 type_digits |-> 10, type_scale |-> 2]] :
              f \in [1..k -> ColumnRowValues]} :
           k \in 0..MaxCols}

\* the body of the loop for one row: the column dictionary, or the TypeError
column_of(row) ==
    LET args == IF row.type \in {"char", "varchar"} THEN <<row.type_digits>>
                ELSE IF row.type = "decimal" THEN <<row.type_digits, row.type_scale>>
                ELSE <<>>
        timezone == row.type = "timestamptz"
        col_type == IF row.type \in DOMAIN MONETDB_TYPE_MAP
                    THEN MONETDB_TYPE_MAP[row.type] ELSE None
        autoincrement == IF row.default # NoneText THEN re_search(row.default)
                         ELSE FALSE
    IN IF col_type = None
       THEN [exc |-> "TypeError",
             msg |-> <<"Can't resolve type ", col_type, " (column '", row.name, "')">>]
       ELSE [exc |-> None,
             column |-> [name |-> row.name,
                         type |-> [cls |-> col_type, args |-> args,
                                   timezone |-> timezone],
                         default |-> row.default,
                         autoincrement |-> autoincrement,
                         nullable |-> row.null]]

\* the loop that returns the columns gathered so far when a type is unknown
RECURSIVE columns_loop_partial(_, _, _)
columns_loop_partial(result, rows, nq) ==
    IF rows = <<>> THEN Ok(result, nq)
    ELSE LET c == column_of(Head(rows))
         IN IF c.exc # None THEN Ok(result, nq)
            ELSE columns_loop_partial(Append(result, c.column), Tail(rows), nq)

\* the loop: the first row whose type is unknown raises out of the function
RECURSIVE columns_loop(_, _, _)
columns_loop(result, rows, nq) ==
    IF rows = <<>> THEN Ok(result, nq)
    ELSE LET c == column_of(Head(rows))
         IN IF c.exc # None THEN Raise(c.exc, c.msg, nq)
            ELSE columns_loop(Append(result, c.column), Tail(rows), nq)

get_columns(table_name, schema, rows) ==
    LET t == _table_id(table_name, schema, NoKw)
    IN IF t.exc # None THEN t ELSE columns_loop(<<>>, rows, t.nq + 1)

\* ----------------------------------------------------- reshaping machine
Cursors ==
    {[q |-> "foreign_keys", rows |-> r] : r \in FkCursors}
    \cup {[q |-> "indexes", rows |-> r] : r \in IdxCursors}
    \cup {[q |-> "primary_key", rows |-> r] : r \in KeyCursors}
    \cup {[q |-> "unique_keys", rows |-> r] : r \in KeyCursors}
    \cup {[q |-> "columns", rows |-> r] : r \in ColumnCursors}

\* the catalog of Init, and the rows the database holds for the queried table
InitRows ==
    /\ sys_schemas = [n \in SchemaNames |-> IF n = "sys" THEN 1 ELSE NoneId]
    /\ sys_tables = {[id |-> TableIdOf("orders", 1), name |-> "orders",
                      schema_id |-> 1, type |-> 0, system |-> FALSE]}
    /\ current_schema = "sys"
    /\ info_cache = <<>>
    /\ cursor \in Cursors
    /\ resolved = [a \in SchemaArgs |-> NoneId]
    /\ last = NoCall

\* one reflection call per result set: the call depends on the catalog, the
\* rows and its arguments only
Reflect(op, table_name, schema, r) ==
    LET s == _schema_id(schema, NoKw)
    IN /\ last.op = "none"
       /\ last' = Called(op, table_name, schema, r, s)
       /\ resolved' = Resolve(schema, s)
       /\ info_cache' = Stored(r.put)
       /\ UNCHANGED <<sys_schemas, sys_tables, current_schema, cursor>>

GetColumns(table_name, schema) ==
    /\ cursor.q = "columns"
    /\ Reflect("get_columns", table_name, schema,
               get_columns(table_name, schema, cursor.rows))

GetForeignKeys(table_name, schema) ==
    /\ cursor.q = "foreign_keys"
    /\ Reflect("get_foreign_keys", table_name, schema,
               get_foreign_keys(table_name, schema, cursor.rows))

GetIndexes(table_name, schema) ==
    /\ cursor.q = "indexes"
    /\ Reflect("get_indexes", table_name, schema,
               get_indexes(table_name, schema, cursor.rows))

GetPkConstraint(table_name, schema) ==
    /\ cursor.q = "primary_key"
    /\ Reflect("get_pk_constraint", table_name, schema,
               get_pk_constraint(table_name, schema, cursor.rows))

GetUniqueConstraints(table_name, schema) ==
    /\ cursor.q = "unique_keys"
    /\ Reflect("get_unique_constraints", table_name, schema,
               get_unique_constraints(table_name, schema, cursor.rows))

NextRows ==
    \/ \E table_name \in TableNames, schema \in SchemaArgs : GetColumns(table_name, schema)
    \/ \E table_name \in TableNames, schema \in SchemaArgs : GetForeignKeys(table_name, schema)
    \/ \E table_name \in TableNames, schema \in SchemaArgs : GetIndexes(table_name, schema)
    \/ \E table_name \in TableNames, schema \in SchemaArgs : GetPkConstraint(table_name, schema)
    \/ \E table_name \in TableNames, schema \in SchemaArgs : GetUniqueConstraints(table_name, schema)

SpecRows == InitRows /\ [][NextRows]_vars

\* ================================================================ claims
\* the schema a call resolves its schema argument to
Effective(schema) == IF schema = None THEN current_schema ELSE schema

\* the catalog holds a row for table_name in the schema the argument names
TableResolves(table_name, schema) ==
    /\ sys_schemas[Effective(schema)] # NoneId
    /\ \E t \in sys_tables :
         t.name = table_name /\ t.schema_id = sys_schemas[Effective(schema)]

NamesOf(rows) == [i \in 1..Len(rows) |-> rows[i].name]

\* the distinct names of a sequence, in the order of their first occurrence
RECURSIVE FirstOccurrences(_)
FirstOccurrences(names) ==
    IF names = <<>> THEN <<>>
    ELSE LET front == FirstOccurrences(SubSeq(names, 1, Len(names) - 1))
             n == names[Len(names)]
         IN IF n \in Range(front) THEN front ELSE Append(front, n)

\* the col values of the rows named n, in row order
RECURSIVE ColsOf(_, _)
ColsOf(rows, n) ==
    IF rows = <<>> THEN <<>>
    ELSE IF Head(rows).name = n
         THEN <<Head(rows).col>> \o ColsOf(Tail(rows), n)
         ELSE ColsOf(Tail(rows), n)

\* C1: get_foreign_keys over rows ordered by (name, key_seq) returns one group
\* per distinct name, in first-occurrence order of the names; position j of a
\* group's constrained_columns and referred_columns holds the two columns of
\* the row of that name with ordinal j; no rows give the empty list.
C1_ForeignKeyGroups ==
    (last.op = "get_foreign_keys" /\ last.exc = None) =>
        LET rows == cursor.rows
            R == last.ret
        IN /\ [i \in 1..Len(R) |-> R[i].name] = FirstOccurrences(NamesOf(rows))
           /\ \A i \in 1..Len(R) :
                LET members == {k \in 1..Len(rows) : rows[k].name = R[i].name}
                IN /\ Len(R[i].constrained_columns) = Cardinality(members)
                   /\ Len(R[i].referred_columns) = Cardinality(members)
                   /\ \A k \in members :
                        /\ R[i].constrained_columns[rows[k].key_seq + 1]
                             = rows[k].fkcolumn_name
                        /\ R[i].referred_columns[rows[k].key_seq + 1]
                             = rows[k].pkcolumn_name
           /\ (rows = <<>> => R = <<>>)

\* two foreign keys, one of them over two columns, have been folded
C1_Witness ==
    /\ last.op = "get_foreign_keys"
    /\ last.exc = None
    /\ Len(cursor.rows) = 3
    /\ Len(last.ret) = 2

\* C2: has_table without a schema is true exactly when some non-system base
\* table of that name exists in any schema; with a schema it is true exactly
\* when such a table exists in the schema of that name.
C2_HasTable ==
    (last.op = "has_table") =>
        /\ last.exc = None
        /\ (last.schema = None =>
              (last.ret <=> \E t \in sys_tables :
                              /\ t.name = last.table_name
                              /\ t.type = 0
                              /\ ~t.system))
        /\ (last.schema # None =>
              (last.ret <=> \E t \in sys_tables :
                              /\ t.name = last.table_name
                              /\ t.type = 0
                              /\ ~t.system
                              /\ sys_schemas[last.schema] # NoneId
                              /\ t.schema_id = sys_schemas[last.schema]))

\* a base table of the asked name exists, but only in another schema
C2_Witness ==
    /\ last.op = "has_table"
    /\ last.schema # None
    /\ last.ret = FALSE
    /\ \E t \in sys_tables : t.name = last.table_name /\ t.type = 0 /\ ~t.system

\* C3: _schema_id of a name without a row in sys.schemas raises
\* InvalidRequestError, and _table_id of a name without a row in an existing
\* schema raises NoSuchTableError; neither returns an id.
C3_NotFound ==
    /\ (/\ last.op = "_schema_id"
        /\ last.schema # None
        /\ sys_schemas[last.schema] = NoneId)
          => (last.exc = "InvalidRequestError" /\ last.ret = NoneId)
    /\ (/\ last.op = "_table_id"
        /\ sys_schemas[Effective(last.schema)] # NoneId
        /\ ~TableResolves(last.table_name, last.schema))
          => (last.exc = "NoSuchTableError" /\ last.ret = NoneId)

\* a table name was looked up in an existing schema that has no such table
C3_Witness ==
    /\ last.op = "_table_id"
    /\ sys_schemas[Effective(last.schema)] # NoneId
    /\ ~TableResolves(last.table_name, last.schema)
    /\ last.exc = "NoSuchTableError"

\* the first row of the cursor whose type the map does not know
FirstUnknown(rows) ==
    CHOOSE i \in 1..Len(rows) :
        /\ rows[i].type \notin DOMAIN MONETDB_TYPE_MAP
        /\ \A j \in 1..(i - 1) : rows[j].type \in DOMAIN MONETDB_TYPE_MAP

HasUnknown(rows) == \E i \in 1..Len(rows) : rows[i].type \notin DOMAIN MONETDB_TYPE_MAP

\* C4: get_columns on a table with a column whose type has no entry in the
\* type map raises TypeError and returns no list, wherever that row stands.
C4_UnknownTypeFails ==
    (/\ last.op = "get_columns"
     /\ TableResolves(last.table_name, last.schema)
     /\ HasUnknown(cursor.rows))
        => (last.exc = "TypeError" /\ last.ret = NoneId)

\* the unknown type stood behind a row whose type is known
C4_Witness ==
    /\ last.op = "get_columns"
    /\ last.exc = "TypeError"
    /\ Len(cursor.rows) = 2
    /\ cursor.rows[1].type \in DOMAIN MONETDB_TYPE_MAP
    /\ cursor.rows[2].type \notin DOMAIN MONETDB_TYPE_MAP

\* the text holds  next value for "<word>"."<word>"  from position i up to
\* position k
PatternSpans(text, i, k) ==
    LET n == Len(NextValueFor)
    IN \E j \in (i + n + 1)..(k - 3) :
         /\ SubSeq(text, i, i + n - 1) = NextValueFor
         /\ text[i + n] = Q
         /\ \A p \in (i + n + 1)..(j - 1) : text[p] \in WordChars
         /\ text[j] = Q
         /\ text[j + 1] = "."
         /\ text[j + 2] = Q
         /\ \A p \in (j + 3)..(k - 1) : text[p] \in WordChars
         /\ text[k] = Q

\* the pattern occurs somewhere in the text
ContainsPattern(text) ==
    \E i \in 1..Len(text), k \in 1..Len(text) : PatternSpans(text, i, k)

\* the pattern occurs at the end of the text, or before one final newline
EndsWithPattern(text) ==
    \E i \in 1..Len(text), k \in 1..Len(text) :
        /\ PatternSpans(text, i, k)
        /\ \/ k = Len(text)
           \/ k + 1 = Len(text) /\ text[k + 1] = "\n"

\* C5 as stated: autoincrement is true exactly for the default texts that
\* contain the pattern  next value for "<schema>"."<sequence>".
C5_ContainsPattern ==
    (last.op = "get_columns" /\ last.exc = None) =>
        \A i \in 1..Len(last.ret) :
            last.ret[i].autoincrement <=>
                (/\ cursor.rows[i].default # NoneText
                 /\ ContainsPattern(cursor.rows[i].default))

\* C5 amended: autoincrement is true exactly for the default texts that end
\* with the pattern, or end with the pattern and one newline; it is false for
\* a NULL default and for every other text.
C5_EndsWithPattern ==
    (last.op = "get_columns" /\ last.exc = None) =>
        \A i \in 1..Len(last.ret) :
            last.ret[i].autoincrement <=>
                (/\ cursor.rows[i].default # NoneText
                 /\ EndsWithPattern(cursor.rows[i].default))

\* one column's default ends with the pattern, another's holds it mid-text
C5_Witness ==
    /\ last.op = "get_columns"
    /\ last.exc = None
    /\ Len(last.ret) = 2
    /\ last.ret[1].autoincrement
    /\ ~last.ret[2].autoincrement
    /\ cursor.rows[2].default # NoneText
    /\ ContainsPattern(cursor.rows[2].default)

\* C6: the TypeError of get_columns names the catalog type that has no map
\* entry and the column that has it.
C6_MessageNamesTypeAndColumn ==
    (last.op = "get_columns" /\ last.exc = "TypeError") =>
        LET row == cursor.rows[FirstUnknown(cursor.rows)]
        IN /\ row.type \in Range(last.msg)
           /\ row.name \in Range(last.msg)

\* C7: once _schema_id has returned an id for an argument in a session, every
\* later _schema_id call of a reflector operation with that argument returns
\* that id and issues no catalog query; the first one of a session queries.
C7_SchemaIdCached ==
    (last.op \in {"_schema_id", "_table_id", "get_table_names"}) =>
        /\ (last.prior # NoneId => (last.sid = last.prior /\ last.sid_nq = 0))
        /\ (last.prior = NoneId => last.sid_nq >= 1)

\* C8: get_indexes over rows ordered by (name, nr) returns one entry per
\* distinct index name, in first-occurrence order, whose column_names holds at
\* position j the column of that index's row with ordinal j, and unique is
\* false in every entry; no rows give the empty list.
C8_IndexGroups ==
    (last.op = "get_indexes" /\ last.exc = None) =>
        LET rows == cursor.rows
            R == last.ret
        IN /\ [i \in 1..Len(R) |-> R[i].name] = FirstOccurrences(NamesOf(rows))
           /\ \A i \in 1..Len(R) :
                LET members == {k \in 1..Len(rows) : rows[k].name = R[i].name}
                IN /\ Len(R[i].column_names) = Cardinality(members)
                   /\ \A k \in members :
                        R[i].column_names[rows[k].nr + 1] = rows[k].column_name
                   /\ R[i].unique = FALSE
           /\ (rows = <<>> => R = <<>>)

\* one index over two columns has been folded into one entry
C8_Witness ==
    /\ last.op = "get_indexes"
    /\ last.exc = None
    /\ Len(cursor.rows) = 2
    /\ Len(last.ret) = 1
    /\ Len(last.ret[1].column_names) = 2

\* C9: get_pk_constraint on an existing table never fails; it returns the
\* empty dictionary exactly when the query returns no row, and otherwise the
\* columns of all rows in return order with the key name of the first row.
C9_PrimaryKey ==
    (/\ last.op = "get_pk_constraint"
     /\ TableResolves(last.table_name, last.schema)) =>
        /\ last.exc = None
        /\ (DOMAIN last.ret = {} <=> cursor.rows = <<>>)
        /\ (cursor.rows # <<>> =>
              /\ last.ret.name = cursor.rows[1].name
              /\ Len(last.ret.constrained_columns) = Len(cursor.rows)
              /\ \A i \in 1..Len(cursor.rows) :
                   last.ret.constrained_columns[i] = cursor.rows[i].col)

\* a table without a primary key was reflected
C9_Witness ==
    /\ last.op = "get_pk_constraint"
    /\ TableResolves(last.table_name, last.schema)
    /\ cursor.rows = <<>>
    /\ last.exc = None
    /\ DOMAIN last.ret = {}

\* C10: get_unique_constraints over rows in any order returns one entry per
\* distinct constraint name, in first-occurrence order of the names, whose
\* column_names are the columns of that name's rows in return order.
C10_UniqueGroups ==
    (last.op = "get_unique_constraints" /\ last.exc = None) =>
        LET rows == cursor.rows
            R == last.ret
        IN /\ [i \in 1..Len(R) |-> R[i].name] = FirstOccurrences(NamesOf(rows))
           /\ \A i \in 1..Len(R) : R[i].column_names = ColsOf(rows, R[i].name)

\* the rows of one constraint were not contiguous
C10_Witness ==
    /\ last.op = "get_unique_constraints"
    /\ last.exc = None
    /\ Len(cursor.rows) = 3
    /\ cursor.rows[1].name = cursor.rows[3].name
    /\ cursor.rows[1].name # cursor.rows[2].name
    /\ Len(last.ret) = 2

====
